---- MODULE Spec2Model ----
(***************************************************************************)
(* A model of the jagged array of src/vla.py: a store of variable length   *)
(* arrays that shares one values buffer, supports null arrays and accepts  *)
(* the arrays in arbitrary order.                                          *)
(*                                                                         *)
(* Python lists are modelled as TLA+ sequences; the list item i (counted   *)
(* from 0) is the sequence element i + 1.                                  *)
(***************************************************************************)
EXTENDS Integers, Sequences, FiniteSets

\* The largest number of var-length arrays of a jagged array.
MaxSize == 2

\* The largest size of the values buffer.
MaxCap == 3

\* The largest n_rows and the largest n_cols of distribute_column_indices.
MaxRows == 4

MaxCols == 4

\* The largest length of the list given to fromlist.
MaxLen == 3

VARIABLES
    jarr,        \* the JaggedArray instance under construction
    lastOp,      \* the last call: its name, arguments, raised error and result
    inp,         \* per index, the item that a call has assigned (UNSPECIFIED if none)
    overflowed,  \* TRUE when some call has failed on the size of values buffer
    mem,         \* the lists in memory and the instances that refer to them
    shared,      \* the JaggedArray instance that the threads work on
    threads,     \* per thread, its place in its call and its local variables
    seen,        \* the last read of the reader: the index and the item
    kept,        \* per index, the item of a completed assignment of a thread
    dist,        \* the call of distribute_column_indices: its line and locals
    made         \* the call of JaggedArray.fromlist: its line and locals

\* The variables of the calls on one instance
storeVars == <<jarr, lastOp, inp, overflowed>>

\* The variables of the objects in memory
heapVars == <<mem>>

\* The variables of the threads
threadVars == <<shared, threads, seen, kept>>

\* The variables of distribute_column_indices
distVars == <<dist>>

\* The variables of fromlist
fromVars == <<made>>

vars ==
    <<jarr, lastOp, inp, overflowed, mem, shared, threads, seen, kept, dist, made>>

----------------------------------------------------------------------------
(* Items of a jagged array *)

UNSPECIFIED == [tag |-> "Unspecified", seq |-> <<>>]

None == [tag |-> "None", seq |-> <<>>]

List(seq) == [tag |-> "list", seq |-> seq]

\* The items that the exhaustive test assigns.
items == {List(<<1, 2>>), List(<<>>), List(<<3>>), None, UNSPECIFIED}

----------------------------------------------------------------------------
(* Python list primitives *)

Min(a, b) == IF a < b THEN a ELSE b

Max(a, b) == IF a > b THEN a ELSE b

\* list[i] raises IndexError unless -len <= i < len
InRange(list, i) == -Len(list) <= i /\ i < Len(list)

\* The position of list[i] in the sequence, for i in range
Pos(list, i) == IF i < 0 THEN i + Len(list) + 1 ELSE i + 1

\* list[i]
GetItem(list, i) == list[Pos(list, i)]

\* list[i] = v
SetItem(list, i, v) == [list EXCEPT ![Pos(list, i)] = v]

\* A bound of a slice as a position in 0..len
Clamp(list, i) == IF i < 0 THEN Max(i + Len(list), 0) ELSE Min(i, Len(list))

\* list[a:b]
GetSlice(list, a, b) ==
    LET lo == Clamp(list, a)
        hi == Clamp(list, b)
    IN  IF lo < hi THEN SubSeq(list, lo + 1, hi) ELSE <<>>

\* list[a:b] = v
SetSlice(list, a, b, v) ==
    LET lo == Clamp(list, a)
        hi == Max(Clamp(list, b), lo)
    IN  SubSeq(list, 1, lo) \o v \o SubSeq(list, hi + 1, Len(list))

----------------------------------------------------------------------------
(* JaggedArray *)

\* JaggedArray.__init__
JaggedArray(size, max_buffer_size) ==
    [ max_buffer_size    |-> max_buffer_size,
      size               |-> size,
      compressed_indices |-> [i \in 1..(size + 1) |-> 0],
      storage_count      |-> 0,
      storage_indices    |-> [i \in 1..size |-> -1],
      values             |-> [i \in 1..max_buffer_size |-> 0] ]

\* The outcome of a call: the instance as the call leaves it, the error it
\* raises and the value it returns.
Outcome(self, err, result) == [jarr |-> self, err |-> err, result |-> result]

\* _unsafe_setnull with the marker -ptr for -(ptr + 1)
_unsafe_setnull_marker(self, index) ==
    LET storage_index == self.storage_count
        s1  == [self EXCEPT !.storage_indices = SetItem(@, index, storage_index)]
        ptr == GetItem(s1.compressed_indices, storage_index)
    IN  IF ~InRange(s1.compressed_indices, storage_index + 1)
        THEN Outcome(s1, "IndexError", None)
        ELSE Outcome(
               [s1 EXCEPT
                  !.compressed_indices =
                      SetItem(SetItem(@, storage_index + 1, ptr),
                              storage_index, -ptr),
                  !.storage_count = @ + 1],
               "none", None)

\* _unsafe_setnull that does not write the offset of the next array
_unsafe_setnull_noprop(self, index) ==
    LET storage_index == self.storage_count
        s1  == [self EXCEPT !.storage_indices = SetItem(@, index, storage_index)]
        ptr == GetItem(s1.compressed_indices, storage_index)
    IN  IF ~InRange(s1.compressed_indices, storage_index + 1)
        THEN Outcome(s1, "IndexError", None)
        ELSE Outcome(
               [s1 EXCEPT
                  !.compressed_indices = SetItem(@, storage_index, -(ptr + 1)),
                  !.storage_count = @ + 1],
               "none", None)

_unsafe_setnull(self, index) ==
    LET storage_index == self.storage_count
        s1  == [self EXCEPT !.storage_indices = SetItem(@, index, storage_index)]
        ptr == GetItem(s1.compressed_indices, storage_index)
    IN  IF ~InRange(s1.compressed_indices, storage_index + 1)
        THEN Outcome(s1, "IndexError", None)
        ELSE Outcome(
               [s1 EXCEPT
                  !.compressed_indices =
                      SetItem(SetItem(@, storage_index + 1, ptr),
                              storage_index, -(ptr + 1)),
                  !.storage_count = @ + 1],
               "none", None)

_unsafe_setitem(self, index, values) ==
    LET size == Len(values)
        storage_index == self.storage_count
        s1  == [self EXCEPT !.storage_indices = SetItem(@, index, storage_index)]
        ptr == GetItem(s1.compressed_indices, storage_index)
    IN  IF ~(ptr + size <= Len(s1.values))
        THEN Outcome(s1, "CapacityExceeded", None)
        ELSE IF ~InRange(s1.compressed_indices, storage_index + 1)
        THEN Outcome(s1, "IndexError", None)
        ELSE Outcome(
               [s1 EXCEPT
                  !.compressed_indices = SetItem(@, storage_index + 1, ptr + size),
                  !.values = SetSlice(@, ptr, ptr + size, values),
                  !.storage_count = @ + 1],
               "none", None)

\* _unsafe_getitem that takes the next entry as an offset even when it is the
\* marker of a null array
_unsafe_getitem_nodecode(self, index) ==
    LET storage_index == GetItem(self.storage_indices, index)
    IN  IF storage_index = -1
        THEN UNSPECIFIED
        ELSE LET ptr == GetItem(self.compressed_indices, storage_index)
             IN  IF ptr < 0
                 THEN None
                 ELSE LET next_ptr == GetItem(self.compressed_indices, storage_index + 1)
                          size == next_ptr - ptr
                      IN  List(GetSlice(self.values, ptr, ptr + size))

_unsafe_getitem(self, index) ==
    LET storage_index == GetItem(self.storage_indices, index)
    IN  IF storage_index = -1
        THEN UNSPECIFIED
        ELSE LET ptr == GetItem(self.compressed_indices, storage_index)
             IN  IF ptr < 0
                 THEN None
                 ELSE LET next_ptr == GetItem(self.compressed_indices, storage_index + 1)
                          size == IF next_ptr < 0
                                  THEN -(next_ptr + 1) - ptr
                                  ELSE next_ptr - ptr
                      IN  List(GetSlice(self.values, ptr, ptr + size))

\* A negative index taken as it is
Normalized_asis(self, index) == index

\* The index after "if index < 0: index += self.size"
Normalized(self, index) == IF index < 0 THEN index + self.size ELSE index

\* __setitem__ without the check that the array is inserted exactly once
__setitem__overwrite(self, index0, varlenarray) ==
    LET index == Normalized(self, index0)
    IN  IF ~(0 <= index /\ index < self.size)
        THEN Outcome(self, "IndexOutOfBounds", None)
        ELSE IF varlenarray = None
        THEN _unsafe_setnull(self, index)
        ELSE IF varlenarray.tag = "list"
        THEN _unsafe_setitem(self, index, varlenarray.seq)
        ELSE Outcome(self, "none", None)

\* The errors are named by the check that raises them: the list index or
\* the range assert (IndexOutOfBounds), the assert that the array is
\* inserted once (DuplicateAssignment), the assert on the buffer size in
\* _unsafe_setitem (CapacityExceeded). The checks run in the order of the
\* code: storage_indices[index] is read, with the list's own reading of a
\* negative index, before the range of index is asserted.
__setitem__(self, index0, varlenarray) ==
    LET index == Normalized(self, index0)
    IN  IF ~InRange(self.storage_indices, index)
        THEN Outcome(self, "IndexOutOfBounds", None)
        ELSE IF ~(GetItem(self.storage_indices, index) = -1)
        THEN Outcome(self, "DuplicateAssignment", None)
        ELSE IF ~(0 <= index /\ index < self.size)
        THEN Outcome(self, "IndexOutOfBounds", None)
        ELSE IF varlenarray = None
        THEN _unsafe_setnull(self, index)
        ELSE IF varlenarray.tag = "list"
        THEN _unsafe_setitem(self, index, varlenarray.seq)
        ELSE Outcome(self, "none", None)

__getitem__(self, index0) ==
    LET index == Normalized(self, index0)
    IN  IF ~(0 <= index /\ index < self.size)
        THEN Outcome(self, "IndexOutOfBounds", None)
        ELSE Outcome(self, "none", _unsafe_getitem(self, index))

tolist(self) == [i \in 1..self.size |-> __getitem__(self, i - 1).result]

RECURSIVE finalize_loop_le(_, _)
\* The loop of finalize with "storage_index <= 0" for "storage_index == -1"
finalize_loop_le(self, index) ==
    IF index >= Len(self.storage_indices)
    THEN Outcome(self, "none", None)
    ELSE IF GetItem(self.storage_indices, index) <= 0
    THEN LET r == _unsafe_setnull(self, index)
         IN  IF r.err = "none" THEN finalize_loop_le(r.jarr, index + 1) ELSE r
    ELSE finalize_loop_le(self, index + 1)

RECURSIVE finalize_loop(_, _)
\* The loop of finalize from the given index on
finalize_loop(self, index) ==
    IF index >= Len(self.storage_indices)
    THEN Outcome(self, "none", None)
    ELSE IF GetItem(self.storage_indices, index) = -1
    THEN LET r == _unsafe_setnull(self, index)
         IN  IF r.err = "none" THEN finalize_loop(r.jarr, index + 1) ELSE r
    ELSE finalize_loop(self, index + 1)

\* finalize that leaves the first array out
finalize_from_second(self) == finalize_loop(self, 1)

finalize(self) == finalize_loop(self, 0)

RECURSIVE normalize_loop_short(_, _, _, _)
\* The loop of normalize that copies every list without its last item
normalize_loop_short(self, dst, unspecified_is_null, index) ==
    IF index >= Len(self.storage_indices)
    THEN Outcome(self, "none", dst)
    ELSE LET storage_index == GetItem(self.storage_indices, index)
             values == _unsafe_getitem(self, index)
             r == IF storage_index = -1
                  THEN IF unspecified_is_null
                       THEN _unsafe_setnull(dst, index)
                       ELSE Outcome(dst, "none", None)
                  ELSE IF values = None
                       THEN _unsafe_setnull(dst, index)
                       ELSE _unsafe_setitem(dst, index,
                                GetSlice(values.seq, 0, Len(values.seq) - 1))
         IN  IF r.err = "none"
             THEN normalize_loop_short(self, r.jarr, unspecified_is_null, index + 1)
             ELSE Outcome(self, r.err, None)

RECURSIVE normalize_loop(_, _, _, _)
\* The loop of normalize from the given index on; dst is the copy
normalize_loop(self, dst, unspecified_is_null, index) ==
    IF index >= Len(self.storage_indices)
    THEN Outcome(self, "none", dst)
    ELSE LET storage_index == GetItem(self.storage_indices, index)
             values == _unsafe_getitem(self, index)
             r == IF storage_index = -1
                  THEN IF unspecified_is_null
                       THEN _unsafe_setnull(dst, index)
                       ELSE Outcome(dst, "none", None)
                  ELSE IF values = None
                       THEN _unsafe_setnull(dst, index)
                       ELSE _unsafe_setitem(dst, index, values.seq)
         IN  IF r.err = "none"
             THEN normalize_loop(self, r.jarr, unspecified_is_null, index + 1)
             ELSE Outcome(self, r.err, None)

\* normalize that sizes the buffer of the copy by the number of stored arrays
normalize_count(self, unspecified_is_null) ==
    normalize_loop(self, JaggedArray(self.size, self.storage_count),
                   unspecified_is_null, 0)

normalize(self, unspecified_is_null) ==
    normalize_loop(
        self,
        JaggedArray(self.size,
                    GetItem(self.compressed_indices, self.storage_count)),
        unspecified_is_null, 0)

----------------------------------------------------------------------------
(* The calls on one instance *)

Call(op, index, row, r) ==
    [op |-> op, index |-> index, row |-> row, err |-> r.err, result |-> r.result]

\* The value of the variables that a specification leaves aside
Unused == <<>>

\* The variables of the other specifications
others == <<heapVars, threadVars, distVars, fromVars>>

Init ==
    /\ \E size \in 0..MaxSize, max_buffer_size \in 0..MaxCap :
           jarr = JaggedArray(size, max_buffer_size)
    /\ lastOp = [op |-> "init", index |-> 0, row |-> None, err |-> "none",
                 result |-> None]
    /\ inp = [i \in 1..jarr.size |-> UNSPECIFIED]
    /\ overflowed = FALSE
    /\ mem = Unused
    /\ shared = Unused /\ threads = Unused /\ seen = Unused /\ kept = Unused
    /\ dist = Unused
    /\ made = Unused

\* The indices that the calls are tried with: all valid ones, negative and
\* not, and the nearest invalid ones.
Indices == (-(jarr.size) - 1)..jarr.size

\* jarr[index] = varlenarray
Set(index, varlenarray) ==
    LET r == __setitem__(jarr, index, varlenarray)
    IN  /\ jarr' = r.jarr
        /\ lastOp' = Call("set", index, varlenarray, r)
        /\ inp' = IF r.err = "none" /\ varlenarray # UNSPECIFIED
                  THEN [inp EXCEPT ![Normalized(jarr, index) + 1] = varlenarray]
                  ELSE inp
        /\ overflowed' = (overflowed \/ r.err = "CapacityExceeded")
        /\ UNCHANGED others

\* jarr[index]
Get(index) ==
    LET r == __getitem__(jarr, index)
    IN  /\ jarr' = r.jarr
        /\ lastOp' = Call("get", index, None, r)
        /\ UNCHANGED <<inp, overflowed>>
        /\ UNCHANGED others

\* jarr.finalize()
Finalize ==
    LET r == finalize(jarr)
    IN  /\ jarr' = r.jarr
        /\ lastOp' = Call("finalize", 0, None, r)
        /\ inp' = [i \in 1..jarr.size |->
                     IF r.err = "none" /\ GetItem(jarr.storage_indices, i - 1) = -1
                     THEN None ELSE inp[i]]
        /\ UNCHANGED overflowed
        /\ UNCHANGED others

\* jarr.normalize(unspecified_is_null)
Normalize(unspecified_is_null) ==
    LET r == normalize(jarr, unspecified_is_null)
    IN  /\ jarr' = r.jarr
        /\ lastOp' = Call("normalize", IF unspecified_is_null THEN 1 ELSE 0, None, r)
        /\ UNCHANGED <<inp, overflowed>>
        /\ UNCHANGED others

Next ==
    \/ \E index \in Indices, varlenarray \in items : Set(index, varlenarray)
    \/ \E index \in Indices : Get(index)
    \/ Finalize
    \/ \E unspecified_is_null \in BOOLEAN : Normalize(unspecified_is_null)

Spec == Init /\ [][Next]_vars

----------------------------------------------------------------------------
(* The instances as objects that refer to lists in memory.                 *)
(*                                                                         *)
(* mem.heap is the sequence of the lists; an object is the record of an    *)
(* instance with, for compressed_indices, storage_indices and values, the  *)
(* place of the list in mem.heap. The methods change the lists in place    *)
(* (item and slice assignments) and never rebind the three attributes, so  *)
(* a call is: load the lists of the object, apply the method, store the    *)
(* lists at the same places.                                               *)

\* No object: the value of narr before the first normalize
NoObject ==
    [ max_buffer_size |-> -1, size |-> -1, compressed_indices |-> 0,
      storage_count |-> -1, storage_indices |-> 0, values |-> 0 ]

\* JaggedArray.__init__: three new lists
HeapNew(heap, size, max_buffer_size) ==
    LET v == JaggedArray(size, max_buffer_size)
    IN  [ heap |-> heap \o <<v.compressed_indices, v.storage_indices, v.values>>,
          obj  |-> [v EXCEPT !.compressed_indices = Len(heap) + 1,
                             !.storage_indices = Len(heap) + 2,
                             !.values = Len(heap) + 3] ]

\* The instance with the lists that the object refers to
Load(heap, obj) ==
    [obj EXCEPT !.compressed_indices = heap[@],
                !.storage_indices = heap[@],
                !.values = heap[@]]

\* The memory and the object after the lists of the object have been
\* changed in place to those of the instance v
Store(heap, obj, v) ==
    [ heap |-> [heap EXCEPT ![obj.compressed_indices] = v.compressed_indices,
                            ![obj.storage_indices] = v.storage_indices,
                            ![obj.values] = v.values],
      obj  |-> [obj EXCEPT !.storage_count = v.storage_count] ]

\* The outcome of a call on an object
HeapOutcome(heap, self, err, result) ==
    [heap |-> heap, self |-> self, err |-> err, result |-> result]

\* A method (as the outcome r of the method on the loaded instance) applied
\* to an object
InPlace(heap, self, r) ==
    LET s == Store(heap, self, r.jarr)
    IN  HeapOutcome(s.heap, s.obj, r.err, NoObject)

\* normalize whose copy refers to the values buffer of the source
heap_normalize_shared(heap, self, unspecified_is_null) ==
    LET r   == normalize(Load(heap, self), unspecified_is_null)
        src == Store(heap, self, r.jarr)
    IN  IF r.err # "none"
        THEN HeapOutcome(src.heap, src.obj, r.err, NoObject)
        ELSE LET new == HeapNew(src.heap, r.result.size, r.result.max_buffer_size)
                 dst == Store(new.heap, new.obj, r.result)
             IN  HeapOutcome(dst.heap, src.obj, "none",
                             [dst.obj EXCEPT !.values = self.values])

\* normalize: the copy is a new object with new lists (__init__), filled by
\* the _unsafe_ methods with the items read from the source; a list item
\* is read as a slice, which is a new list, and is copied into the buffer
\* of the copy by a slice assignment.
heap_normalize(heap, self, unspecified_is_null) ==
    LET r   == normalize(Load(heap, self), unspecified_is_null)
        src == Store(heap, self, r.jarr)
    IN  IF r.err # "none"
        THEN HeapOutcome(src.heap, src.obj, r.err, NoObject)
        ELSE LET new == HeapNew(src.heap, r.result.size, r.result.max_buffer_size)
                 dst == Store(new.heap, new.obj, r.result)
             IN  HeapOutcome(dst.heap, src.obj, "none", dst.obj)

\* The items assigned to the two instances: a null array and a list that
\* takes room in the values buffer
HeapItems == {None, List(<<1, 2>>)}

\* The names of the two instances: jarr and its normalized copy narr
Targets == {"jarr", "narr"}

HeapCall(name, target, r) == [name |-> name, target |-> target, err |-> r.err]

HeapInit ==
    /\ \E size \in 0..MaxSize, max_buffer_size \in 0..MaxCap :
         LET new == HeapNew(<<>>, size, max_buffer_size)
         IN  mem = [ heap |-> new.heap, jarr |-> new.obj, narr |-> NoObject,
                     op |-> [name |-> "init", target |-> "jarr", err |-> "none"] ]
    /\ jarr = Unused /\ lastOp = Unused /\ inp = Unused /\ overflowed = Unused
    /\ shared = Unused /\ threads = Unused /\ seen = Unused /\ kept = Unused
    /\ dist = Unused
    /\ made = Unused

\* target[index] = varlenarray
HeapSet(target, index, varlenarray) ==
    /\ mem[target] # NoObject
    /\ LET r == InPlace(mem.heap, mem[target],
                        __setitem__(Load(mem.heap, mem[target]), index, varlenarray))
       IN  mem' = [mem EXCEPT !.heap = r.heap, ![target] = r.self,
                              !.op = HeapCall("set", target, r)]
    /\ UNCHANGED <<storeVars, threadVars, distVars, fromVars>>

\* target.finalize()
HeapFinalize(target) ==
    /\ mem[target] # NoObject
    /\ LET r == InPlace(mem.heap, mem[target],
                        finalize(Load(mem.heap, mem[target])))
       IN  mem' = [mem EXCEPT !.heap = r.heap, ![target] = r.self,
                              !.op = HeapCall("finalize", target, r)]
    /\ UNCHANGED <<storeVars, threadVars, distVars, fromVars>>

\* narr = jarr.normalize(unspecified_is_null); the lists of the copy that
\* narr referred to before are freed
HeapNormalize(unspecified_is_null) ==
    /\ LET r == heap_normalize(SubSeq(mem.heap, 1, 3), mem.jarr, unspecified_is_null)
       IN  mem' = IF r.err = "none"
                  THEN [mem EXCEPT !.heap = r.heap, !.jarr = r.self,
                                   !.narr = r.result,
                                   !.op = HeapCall("normalize", "jarr", r)]
                  ELSE [mem EXCEPT !.jarr = r.self,
                                   !.op = HeapCall("normalize", "jarr", r)]
    /\ UNCHANGED <<storeVars, threadVars, distVars, fromVars>>

HeapNext ==
    \/ \E target \in Targets, index \in 0..(mem.jarr.size - 1),
          varlenarray \in HeapItems : HeapSet(target, index, varlenarray)
    \/ \E target \in Targets : HeapFinalize(target)
    \/ \E unspecified_is_null \in BOOLEAN : HeapNormalize(unspecified_is_null)

HeapSpec == HeapInit /\ [][HeapNext]_vars

----------------------------------------------------------------------------
(* Threads that call jarr[index] = varlenarray on one instance with no     *)
(* lock. A step of a thread is one line of __setitem__, _unsafe_setnull or *)
(* _unsafe_setitem, or of the loop of finalize around _unsafe_setnull:     *)
(* that is one read or one write of storage_count,                         *)
(* storage_indices, compressed_indices or values; "storage_count += 1" is  *)
(* a read and a write. The place of a thread is the line it executes next. *)

\* The local variables of a thread at the given place of a call
Thread(pc, index, row) ==
    [ pc |-> pc, index |-> index, row |-> row, op |-> "set",
      storage_index |-> -1, ptr |-> 0, count |-> 0, err |-> "none" ]

\* The thread is inside a call
Running(l) == l.pc \notin {"idle", "done", "failed"}

\* The outcome of a step: the instance and the thread
Goto(self, l, pc) == [jarr |-> self, thread |-> [l EXCEPT !.pc = pc]]

\* The outcome of a step that raises
Raise(self, l, err) ==
    [jarr |-> self, thread |-> [l EXCEPT !.pc = "failed", !.err = err]]

\* The step of _unsafe_setitem that stores the items one place to the right
Step_shifted(self, l) ==
    LET size == Len(l.row.seq)
    IN  CASE l.pc = "L149" ->
               IF GetItem(self.storage_indices, l.index) # -1
               THEN Raise(self, l, "DuplicateAssignment")
               ELSE Goto(self, l, IF l.row = None THEN "L101" ELSE "L110")
          [] l.pc = "L101" ->
               Goto(self, [l EXCEPT !.storage_index = self.storage_count], "L102")
          [] l.pc = "L102" ->
               Goto([self EXCEPT !.storage_indices =
                                     SetItem(@, l.index, l.storage_index)],
                    l, "L103")
          [] l.pc = "L103" ->
               Goto(self,
                    [l EXCEPT !.ptr = GetItem(self.compressed_indices,
                                              l.storage_index)],
                    "L104")
          [] l.pc = "L104" ->
               IF ~InRange(self.compressed_indices, l.storage_index + 1)
               THEN Raise(self, l, "IndexError")
               ELSE Goto([self EXCEPT !.compressed_indices =
                                          SetItem(@, l.storage_index + 1, l.ptr)],
                         l, "L105")
          [] l.pc = "L105" ->
               Goto([self EXCEPT !.compressed_indices =
                                     SetItem(@, l.storage_index, -(l.ptr + 1))],
                    l, "L106")
          [] l.pc = "L106" ->
               Goto(self, [l EXCEPT !.count = self.storage_count], "L106w")
          [] l.pc = "L106w" ->
               IF l.op = "finalize"
               THEN Goto([self EXCEPT !.storage_count = l.count + 1],
                         [l EXCEPT !.index = @ + 1], "L199")
               ELSE Goto([self EXCEPT !.storage_count = l.count + 1], l, "done")
          [] l.pc = "L199" ->
               IF l.index >= Len(self.storage_indices)
               THEN Goto(self, l, "done")
               ELSE IF GetItem(self.storage_indices, l.index) = -1
               THEN Goto(self, l, "L101")
               ELSE Goto(self, [l EXCEPT !.index = @ + 1], "L199")
          [] l.pc = "L110" ->
               Goto(self, [l EXCEPT !.storage_index = self.storage_count], "L111")
          [] l.pc = "L111" ->
               Goto([self EXCEPT !.storage_indices =
                                     SetItem(@, l.index, l.storage_index)],
                    l, "L112")
          [] l.pc = "L112" ->
               Goto(self,
                    [l EXCEPT !.ptr = GetItem(self.compressed_indices,
                                              l.storage_index)],
                    "L113")
          [] l.pc = "L113" ->
               IF ~(l.ptr + size <= Len(self.values))
               THEN Raise(self, l, "CapacityExceeded")
               ELSE Goto(self, l, "L114")
          [] l.pc = "L114" ->
               IF ~InRange(self.compressed_indices, l.storage_index + 1)
               THEN Raise(self, l, "IndexError")
               ELSE Goto([self EXCEPT !.compressed_indices =
                                          SetItem(@, l.storage_index + 1,
                                                  l.ptr + size)],
                         l, "L115")
          [] l.pc = "L115" ->
               Goto([self EXCEPT !.values =
                                     SetSlice(@, l.ptr + 1, l.ptr + 1 + size,
                                              l.row.seq)],
                    l, "L116")
          [] l.pc = "L116" ->
               Goto(self, [l EXCEPT !.count = self.storage_count], "L116w")
          [] l.pc = "L116w" ->
               Goto([self EXCEPT !.storage_count = l.count + 1], l, "done")

\* The step of the thread l on the instance self: the line l.pc
Step(self, l) ==
    LET size == Len(l.row.seq)
    IN  CASE l.pc = "L149" ->
               IF GetItem(self.storage_indices, l.index) # -1
               THEN Raise(self, l, "DuplicateAssignment")
               ELSE Goto(self, l, IF l.row = None THEN "L101" ELSE "L110")
          [] l.pc = "L101" ->
               Goto(self, [l EXCEPT !.storage_index = self.storage_count], "L102")
          [] l.pc = "L102" ->
               Goto([self EXCEPT !.storage_indices =
                                     SetItem(@, l.index, l.storage_index)],
                    l, "L103")
          [] l.pc = "L103" ->
               Goto(self,
                    [l EXCEPT !.ptr = GetItem(self.compressed_indices,
                                              l.storage_index)],
                    "L104")
          [] l.pc = "L104" ->
               IF ~InRange(self.compressed_indices, l.storage_index + 1)
               THEN Raise(self, l, "IndexError")
               ELSE Goto([self EXCEPT !.compressed_indices =
                                          SetItem(@, l.storage_index + 1, l.ptr)],
                         l, "L105")
          [] l.pc = "L105" ->
               Goto([self EXCEPT !.compressed_indices =
                                     SetItem(@, l.storage_index, -(l.ptr + 1))],
                    l, "L106")
          [] l.pc = "L106" ->
               Goto(self, [l EXCEPT !.count = self.storage_count], "L106w")
          [] l.pc = "L106w" ->
               IF l.op = "finalize"
               THEN Goto([self EXCEPT !.storage_count = l.count + 1],
                         [l EXCEPT !.index = @ + 1], "L199")
               ELSE Goto([self EXCEPT !.storage_count = l.count + 1], l, "done")
          [] l.pc = "L199" ->
               IF l.index >= Len(self.storage_indices)
               THEN Goto(self, l, "done")
               ELSE IF GetItem(self.storage_indices, l.index) = -1
               THEN Goto(self, l, "L101")
               ELSE Goto(self, [l EXCEPT !.index = @ + 1], "L199")
          [] l.pc = "L110" ->
               Goto(self, [l EXCEPT !.storage_index = self.storage_count], "L111")
          [] l.pc = "L111" ->
               Goto([self EXCEPT !.storage_indices =
                                     SetItem(@, l.index, l.storage_index)],
                    l, "L112")
          [] l.pc = "L112" ->
               Goto(self,
                    [l EXCEPT !.ptr = GetItem(self.compressed_indices,
                                              l.storage_index)],
                    "L113")
          [] l.pc = "L113" ->
               IF ~(l.ptr + size <= Len(self.values))
               THEN Raise(self, l, "CapacityExceeded")
               ELSE Goto(self, l, "L114")
          [] l.pc = "L114" ->
               IF ~InRange(self.compressed_indices, l.storage_index + 1)
               THEN Raise(self, l, "IndexError")
               ELSE Goto([self EXCEPT !.compressed_indices =
                                          SetItem(@, l.storage_index + 1,
                                                  l.ptr + size)],
                         l, "L115")
          [] l.pc = "L115" ->
               Goto([self EXCEPT !.values =
                                     SetSlice(@, l.ptr, l.ptr + size, l.row.seq)],
                    l, "L116")
          [] l.pc = "L116" ->
               Goto(self, [l EXCEPT !.count = self.storage_count], "L116w")
          [] l.pc = "L116w" ->
               Goto([self EXCEPT !.storage_count = l.count + 1], l, "done")

\* The items that the threads assign
ThreadItems == items \ {UNSPECIFIED}

\* The writers of the run with two writers, and the only writer of the run
\* with a reader
Writers == {1, 2}

Writer == 1

ThreadInit(ts) ==
    /\ \E size \in 0..MaxSize, max_buffer_size \in 0..MaxCap :
         shared = JaggedArray(size, max_buffer_size)
    /\ threads = [t \in ts |-> Thread("idle", 0, None)]
    /\ seen = [index |-> -1, result |-> None]
    /\ kept = [i \in 1..shared.size |-> UNSPECIFIED]
    /\ jarr = Unused /\ lastOp = Unused /\ inp = Unused /\ overflowed = Unused
    /\ mem = Unused
    /\ dist = Unused
    /\ made = Unused

\* The thread t enters jarr[index] = varlenarray
Begin(t, index, varlenarray) ==
    /\ ~Running(threads[t])
    /\ threads' = [threads EXCEPT ![t] = Thread("L149", index, varlenarray)]
    /\ UNCHANGED <<shared, seen, kept>>
    /\ UNCHANGED <<storeVars, heapVars, distVars, fromVars>>

\* The thread t enters jarr.finalize()
BeginFinalize(t) ==
    /\ ~Running(threads[t])
    /\ threads' = [threads EXCEPT
                      ![t] = [Thread("L199", 0, None) EXCEPT !.op = "finalize"]]
    /\ UNCHANGED <<shared, seen, kept>>
    /\ UNCHANGED <<storeVars, heapVars, distVars, fromVars>>

\* The thread t executes its next line; the last line of _unsafe_setnull or
\* _unsafe_setitem completes the assignment of the item
Line(t) ==
    /\ Running(threads[t])
    /\ LET r == Step(shared, threads[t])
       IN  /\ shared' = r.jarr
           /\ threads' = [threads EXCEPT ![t] = r.thread]
    /\ kept' = IF threads[t].pc \in {"L106w", "L116w"}
               THEN [kept EXCEPT ![threads[t].index + 1] = threads[t].row]
               ELSE kept
    /\ UNCHANGED seen
    /\ UNCHANGED <<storeVars, heapVars, distVars, fromVars>>

\* The reader executes jarr[index], between two lines of the writer
Read(index) ==
    /\ seen' = [index |-> index, result |-> __getitem__(shared, index).result]
    /\ UNCHANGED <<shared, threads, kept>>
    /\ UNCHANGED <<storeVars, heapVars, distVars, fromVars>>

\* Two writers, one call each
RaceInit == ThreadInit(Writers)

RaceNext ==
    \/ \E t \in Writers, index \in 0..(shared.size - 1),
          varlenarray \in ThreadItems :
            threads[t].pc = "idle" /\ Begin(t, index, varlenarray)
    \/ \E t \in Writers : Line(t)

RaceSpec == RaceInit /\ [][RaceNext]_vars

\* One writer, call after call of jarr[index] = varlenarray or
\* jarr.finalize(), and a reader
TornInit == ThreadInit({Writer})

TornNext ==
    \/ \E index \in 0..(shared.size - 1), varlenarray \in ThreadItems :
          Begin(Writer, index, varlenarray)
    \/ BeginFinalize(Writer)
    \/ Line(Writer)
    \/ \E index \in 0..(shared.size - 1) : Read(index)

TornSpec == TornInit /\ [][TornNext]_vars

----------------------------------------------------------------------------
(* distribute_column_indices(n_rows, n_cols, nnz, backend='python') of     *)
(* data/distribute_column_indices.py. The call is a record of its line and *)
(* its local variables; an action is a block of lines, and one pass of a   *)
(* while loop is one step.                                                 *)

\* math.isqrt(x)
Isqrt(x) == CHOOSE r \in 0..x : r * r <= x /\ (r + 1) * (r + 1) > x

\* [v] * count
Repeat(v, count) == [j \in 1..Max(count, 0) |-> v]

\* sum(list[k:])
RECURSIVE Sum(_, _)
Sum(list, k) == IF k >= Len(list) THEN 0 ELSE GetItem(list, k) + Sum(list, k + 1)

\* The call at its entry
distribute_column_indices(n_rows, n_cols, nnz) ==
    [ pc |-> "L94", n_rows |-> n_rows, n_cols |-> n_cols, nnz |-> nnz,
      counts |-> <<>>, M |-> 0, K |-> 0, N |-> 0, n |-> 0, left |-> 0, m |-> 0,
      nnz2 |-> 0, n_rows2 |-> 0, err |-> "none" ]

\* The call stops on an exception
Stop(d, err) == [d EXCEPT !.pc = "failed", !.err = err]

\* Lines 94-112: the assert, counts = [0] * n_rows, and M, K, N
enter(d) ==
    IF ~(d.n_rows > 0 /\ d.n_cols > 0 /\ d.nnz >= 0
         /\ d.nnz <= d.n_rows * d.n_cols)
    THEN Stop(d, "AssertionError")
    ELSE LET M == (d.n_cols * (d.n_cols + 1)) \div 2
             K == d.n_rows % (d.n_cols + 1)
             N == M * (d.n_rows \div (d.n_cols + 1)) + (K * (K - 1)) \div 2
         IN  [d EXCEPT !.pc = "L115", !.counts = Repeat(0, d.n_rows),
                       !.M = M, !.K = K, !.N = N]

\* Lines 115-119: no right rectangle, or the start of its search
right_rectangle(d) ==
    IF d.N = 0 \/ d.nnz < Max(d.N, d.n_cols)
    THEN [d EXCEPT !.pc = "L136", !.n = 0]
    ELSE [d EXCEPT !.pc = "L120", !.left = 0, !.n = d.n_rows - 1, !.N = 0]

\* The pass of the while loop that never moves left
right_search_stuck(d) ==
    IF ~(d.n - d.left > 1)
    THEN [d EXCEPT !.pc = "L129"]
    ELSE LET middle == (d.n + d.left) \div 2
             K == (d.n_rows - middle) % (d.n_cols + 1)
             N2 == d.M * ((d.n_rows - middle) \div (d.n_cols + 1))
                   + (K * (K - 1)) \div 2
         IN  IF N2 = 0 \/ middle * d.n_cols > d.nnz - Max(N2, d.n_cols)
             THEN [d EXCEPT !.K = K, !.n = middle, !.N = N2]
             ELSE [d EXCEPT !.K = K, !.left = d.left]

\* Lines 120-127: the test of the while loop and one pass of it
right_search(d) ==
    IF ~(d.n - d.left > 1)
    THEN [d EXCEPT !.pc = "L129"]
    ELSE LET middle == (d.n + d.left) \div 2
             K == (d.n_rows - middle) % (d.n_cols + 1)
             N2 == d.M * ((d.n_rows - middle) \div (d.n_cols + 1))
                   + (K * (K - 1)) \div 2
         IN  IF N2 = 0 \/ middle * d.n_cols > d.nnz - Max(N2, d.n_cols)
             THEN [d EXCEPT !.K = K, !.n = middle, !.N = N2]
             ELSE [d EXCEPT !.K = K, !.left = middle]

\* Lines 129-132: counts[-n:] = [n_cols] * n
right_fill(d) ==
    [d EXCEPT !.pc = "L136",
              !.counts = SetSlice(@, -(d.n), Len(@), Repeat(d.n_cols, d.n))]

\* Lines 136-144: nnz2, n_rows2, and no lower rectangle or the start of its
\* search
lower_rectangle(d) ==
    LET nnz2 == d.nnz - d.n * d.n_cols
        n_rows2 == d.n_rows - d.n
        e == [d EXCEPT !.nnz2 = nnz2, !.n_rows2 = n_rows2]
    IN  IF d.N = 0 \/ nnz2 < Max(d.N, n_rows2)
        THEN [e EXCEPT !.pc = "L162", !.m = 0]
        ELSE [e EXCEPT !.pc = "L145", !.left = 0, !.m = d.n_cols - 1,
                       !.M = 0, !.N = 0]

\* Lines 145-153: the test of the while loop and one pass of it
lower_search(d) ==
    IF ~(d.m - d.left > 1)
    THEN [d EXCEPT !.pc = "L155"]
    ELSE LET middle == (d.m + d.left) \div 2
             K == d.n_rows2 % (d.n_cols - middle + 1)
             M2 == ((d.n_cols - middle) * (d.n_cols - middle + 1)) \div 2
             N2 == M2 * (d.n_rows2 \div (d.n_cols - middle + 1))
                   + (K * (K - 1)) \div 2
         IN  IF N2 = 0 \/ middle * d.n_rows2 > d.nnz2 - Max(N2, d.n_rows2)
             THEN [d EXCEPT !.K = K, !.m = middle, !.M = M2, !.N = N2]
             ELSE [d EXCEPT !.K = K, !.left = middle]

\* Lines 155-158: counts[:n_rows2] = [m] * n_rows2
lower_fill(d) ==
    [d EXCEPT !.pc = "L162",
              !.counts = SetSlice(@, 0, d.n_rows2, Repeat(d.m, d.n_rows2))]

\* Lines 183-185: for i in range(offset): counts[i] = i % (n_cols2 + 1)
RECURSIVE full_sawteeth(_, _, _, _)
full_sawteeth(counts, i, offset, n_cols2) ==
    IF i >= offset THEN counts
    ELSE full_sawteeth(SetItem(counts, i, i % (n_cols2 + 1)), i + 1, offset,
                       n_cols2)

\* Lines 198-199: for i in range(k + 1): counts[offset + i] += i
RECURSIVE add_sawtooth(_, _, _, _)
add_sawtooth(counts, i, offset, k) ==
    IF i >= k + 1 THEN counts
    ELSE add_sawtooth(SetItem(counts, offset + i,
                              GetItem(counts, offset + i) + i),
                      i + 1, offset, k)

\* Lines 204-205: for i in range(k + 1): counts[offset + i] = i
RECURSIVE set_sawtooth(_, _, _, _)
set_sawtooth(counts, i, offset, k) ==
    IF i >= k + 1 THEN counts
    ELSE set_sawtooth(SetItem(counts, offset + i, i), i + 1, offset, k)

\* Lines 162-212: n_cols2, nnz2 and the sawteeth
sawteeth(d) ==
    LET n_cols2 == d.n_cols - d.m
        nnz2 == d.nnz2 - d.m * d.n_rows2
        e == [d EXCEPT !.pc = "L214", !.nnz2 = nnz2]
    IN  IF d.N = 0
        THEN IF ~InRange(d.counts, 0) THEN Stop(e, "IndexError")
             ELSE [e EXCEPT !.counts = SetItem(@, 0, nnz2)]
        ELSE IF d.M = 0 THEN Stop(e, "ZeroDivisionError")
        ELSE LET offset == (nnz2 \div d.M) * (n_cols2 + 1)
                 k0 == Isqrt(2 * (nnz2 % d.M))
                 k == IF k0 * (k0 + 1) > 2 * (nnz2 % d.M) THEN k0 - 1 ELSE k0
                 correction == (nnz2 % d.M) - ((k * (k + 1)) \div 2)
             IN  IF offset > Len(d.counts) THEN Stop(e, "IndexError")
                 ELSE LET full == full_sawteeth(d.counts, 0, offset, n_cols2)
                      IN  IF k = 0 THEN [e EXCEPT !.counts = full]
                          ELSE IF ~(offset + k < Len(full))
                          THEN Stop(e, "IndexError")
                          ELSE LET teeth ==
                                     IF d.m # 0
                                     THEN add_sawtooth(full, 0, offset, k)
                                     ELSE set_sawtooth(full, 0, offset, k)
                               IN  [e EXCEPT !.counts =
                                       SetItem(teeth, offset,
                                               GetItem(teeth, offset)
                                                   + correction)]

\* Lines 214-220: the asserts on counts and the return
check_invariants(d) ==
    IF Sum(d.counts, 0) # d.nnz THEN Stop(d, "AssertionError")
    ELSE IF d.counts = <<>> THEN Stop(d, "ValueError")
    ELSE IF \E j \in 1..Len(d.counts) : d.counts[j] < 0
    THEN Stop(d, "AssertionError")
    ELSE IF \E j \in 1..Len(d.counts) : d.counts[j] > d.n_cols
    THEN Stop(d, "AssertionError")
    ELSE [d EXCEPT !.pc = "returned"]

DistInit ==
    /\ \E n_rows \in 1..MaxRows, n_cols \in 1..MaxCols :
         \E nnz \in 0..(n_rows * n_cols) :
            dist = distribute_column_indices(n_rows, n_cols, nnz)
    /\ jarr = Unused /\ lastOp = Unused /\ inp = Unused /\ overflowed = Unused
    /\ mem = Unused
    /\ shared = Unused /\ threads = Unused /\ seen = Unused /\ kept = Unused
    /\ made = Unused

\* The variables of the other specifications
distOthers == <<storeVars, heapVars, threadVars, fromVars>>

\* Lines 94-112 execute
Enter ==
    /\ dist.pc = "L94"
    /\ dist' = enter(dist)
    /\ UNCHANGED distOthers

\* Lines 115-119 execute
RightRectangle ==
    /\ dist.pc = "L115"
    /\ dist' = right_rectangle(dist)
    /\ UNCHANGED distOthers

\* Lines 120-127 execute
RightSearch ==
    /\ dist.pc = "L120"
    /\ dist' = right_search(dist)
    /\ UNCHANGED distOthers

\* Lines 129-132 execute
RightFill ==
    /\ dist.pc = "L129"
    /\ dist' = right_fill(dist)
    /\ UNCHANGED distOthers

\* Lines 136-144 execute
LowerRectangle ==
    /\ dist.pc = "L136"
    /\ dist' = lower_rectangle(dist)
    /\ UNCHANGED distOthers

\* Lines 145-153 execute
LowerSearch ==
    /\ dist.pc = "L145"
    /\ dist' = lower_search(dist)
    /\ UNCHANGED distOthers

\* Lines 155-158 execute
LowerFill ==
    /\ dist.pc = "L155"
    /\ dist' = lower_fill(dist)
    /\ UNCHANGED distOthers

\* Lines 162-212 execute
Sawteeth ==
    /\ dist.pc = "L162"
    /\ dist' = sawteeth(dist)
    /\ UNCHANGED distOthers

\* Lines 214-220 execute
CheckInvariants ==
    /\ dist.pc = "L214"
    /\ dist' = check_invariants(dist)
    /\ UNCHANGED distOthers

DistNext ==
    \/ Enter
    \/ RightRectangle
    \/ RightSearch
    \/ RightFill
    \/ LowerRectangle
    \/ LowerSearch
    \/ LowerFill
    \/ Sawteeth
    \/ CheckInvariants

\* The interpreter runs the call: a block that can execute does execute
DistSpec == DistInit /\ [][DistNext]_vars /\ WF_vars(DistNext)

----------------------------------------------------------------------------
(* JaggedArray.fromlist(lst). The call is a record of its line and its     *)
(* local variables; one pass of the for loop is one step.                  *)

\* The lists of items of the given length
Lists(len) == [1..len -> items]

\* sum(len(arr) for arr in lst if isinstance(arr, list)) with every list
\* counted as one item
buffer_size_count(lst, k) ==
    Cardinality({j \in 1..k : lst[j].tag = "list"})

RECURSIVE buffer_size(_, _)
\* sum(len(arr) for arr in lst[:k] if isinstance(arr, list))
buffer_size(lst, k) ==
    IF k = 0 THEN 0
    ELSE buffer_size(lst, k - 1)
         + (IF lst[k].tag = "list" THEN Len(lst[k].seq) ELSE 0)

\* The call at its entry
fromlist(lst) ==
    [ pc |-> "L188", lst |-> lst, jarr |-> JaggedArray(0, 0), i |-> 0,
      err |-> "none" ]

\* Lines 188-189: buffer_size and jarr = cls(len(lst), buffer_size)
fromlist_construct(f) ==
    [f EXCEPT !.pc = "L190",
              !.jarr = JaggedArray(Len(f.lst), buffer_size(f.lst, Len(f.lst)))]

\* Lines 190-191: one pass of the loop, jarr[i] = arr
fromlist_assign(f) ==
    LET r == __setitem__(f.jarr, f.i, GetItem(f.lst, f.i))
    IN  IF r.err # "none"
        THEN [f EXCEPT !.pc = "failed", !.jarr = r.jarr, !.err = r.err]
        ELSE [f EXCEPT !.jarr = r.jarr, !.i = f.i + 1]

\* Line 192: return jarr
fromlist_return(f) == [f EXCEPT !.pc = "returned"]

FromlistInit ==
    /\ \E len \in 0..MaxLen : \E lst \in Lists(len) : made = fromlist(lst)
    /\ jarr = Unused /\ lastOp = Unused /\ inp = Unused /\ overflowed = Unused
    /\ mem = Unused
    /\ shared = Unused /\ threads = Unused /\ seen = Unused /\ kept = Unused
    /\ dist = Unused

\* The variables of the other specifications
fromOthers == <<storeVars, heapVars, threadVars, distVars>>

FromlistConstruct ==
    /\ made.pc = "L188"
    /\ made' = fromlist_construct(made)
    /\ UNCHANGED fromOthers

FromlistAssign ==
    /\ made.pc = "L190" /\ made.i < Len(made.lst)
    /\ made' = fromlist_assign(made)
    /\ UNCHANGED fromOthers

FromlistReturn ==
    /\ made.pc = "L190" /\ ~(made.i < Len(made.lst))
    /\ made' = fromlist_return(made)
    /\ UNCHANGED fromOthers

FromlistNext ==
    \/ FromlistConstruct
    \/ FromlistAssign
    \/ FromlistReturn

FromlistSpec == FromlistInit /\ [][FromlistNext]_vars

----------------------------------------------------------------------------
(* Properties *)

\* The valid indices of jarr, not negative
Valid == 0..(jarr.size - 1)

\* The item that self[index] returns, for a valid index
Row(self, index) == __getitem__(self, index).result

\* The item with UNSPECIFIED read as None
AsNull(item) == IF item = UNSPECIFIED THEN None ELSE item

\* C1: when the total length of the assigned lists fits the buffer (no call
\* has failed on the buffer size), tolist() is, whatever the order of the
\* assignments was, the assigned item at every assigned index and
\* UNSPECIFIED at every other index.
C1_PermutationInvariance == ~overflowed => tolist(jarr) = inp

\* Two non-empty lists stored in the order opposite to their indices.
C1_Witness ==
    /\ ~overflowed
    /\ jarr.size >= 2
    /\ GetItem(jarr.storage_indices, 0) = 1
    /\ GetItem(jarr.storage_indices, 1) = 0
    /\ inp[1].tag = "list" /\ Len(inp[1].seq) > 0
    /\ inp[2].tag = "list" /\ Len(inp[2].seq) > 0

\* C2: on an instance built by successful assignments, normalize(False)
\* returns an instance with the same tolist() (UNSPECIFIED kept) and
\* normalize(True) one with the same tolist() but every UNSPECIFIED read
\* as None.
C2_NormalizeCorrect ==
    (lastOp.op = "normalize" /\ ~overflowed) =>
        /\ lastOp.err = "none"
        /\ tolist(lastOp.result) =
             IF lastOp.index = 1
             THEN [i \in 1..jarr.size |-> AsNull(tolist(jarr)[i])]
             ELSE tolist(jarr)

\* normalize(True) of an instance with an unspecified item and a non-empty
\* list.
C2_Witness ==
    /\ lastOp.op = "normalize" /\ lastOp.index = 1 /\ ~overflowed
    /\ \E i \in Valid : Row(jarr, i) = UNSPECIFIED /\ Row(lastOp.result, i) = None
    /\ \E i \in Valid : Row(jarr, i).tag = "list" /\ Len(Row(jarr, i).seq) > 0

\* The index that the last call has addressed, after "index += self.size"
LastIndex(self) == Normalized(self, lastOp'.index)

\* The last call is jarr[index] = varlenarray with an index in 0..size-1
SetCalled == lastOp'.op = "set" /\ LastIndex(jarr) \in Valid

\* The number of buffer items in use: the offset of the next array
current_offset(self) == GetItem(self.compressed_indices, self.storage_count)

\* C3: an assignment of a list that is rejected because the list does not
\* fit the rest of the buffer leaves the whole instance as it was, and the
\* item at the index still reads UNSPECIFIED.
C3_RejectedOverflowKeepsState ==
    [][(SetCalled /\ lastOp'.err = "CapacityExceeded") =>
          /\ jarr' = jarr
          /\ Row(jarr', LastIndex(jarr)) = UNSPECIFIED]_vars

\* C4: an assignment to an index that an earlier assignment or finalize has
\* assigned fails as a duplicate for None and for every list, and leaves
\* the instance as it was, so that the index reads the item assigned first.
C4_DuplicateRejected ==
    [][(/\ SetCalled
        /\ inp[LastIndex(jarr) + 1] # UNSPECIFIED
        /\ lastOp'.row # UNSPECIFIED) =>
          /\ lastOp'.err = "DuplicateAssignment"
          /\ jarr' = jarr
          /\ Row(jarr', LastIndex(jarr)) = inp[LastIndex(jarr) + 1]]_vars

\* A non-empty list has survived the attempt to assign None to its index.
C4_Witness ==
    /\ lastOp.op = "set" /\ lastOp.err = "DuplicateAssignment"
    /\ lastOp.row = None
    /\ Normalized(jarr, lastOp.index) \in Valid
    /\ inp[Normalized(jarr, lastOp.index) + 1].tag = "list"
    /\ Len(inp[Normalized(jarr, lastOp.index) + 1].seq) > 0
    /\ Row(jarr, Normalized(jarr, lastOp.index)).tag = "list"

\* C5: in every state storage_indices[i] is -1 exactly for the items that
\* no call has assigned, every other entry lies in [0, storage_count), and
\* no two indices share a storage index.
C5_StorageIndicesInvariant ==
    /\ \A i \in Valid :
         /\ GetItem(jarr.storage_indices, i) = -1 <=> inp[i + 1] = UNSPECIFIED
         /\ GetItem(jarr.storage_indices, i) # -1 =>
              /\ 0 <= GetItem(jarr.storage_indices, i)
              /\ GetItem(jarr.storage_indices, i) < jarr.storage_count
    /\ \A i, j \in Valid :
         (/\ i # j
          /\ GetItem(jarr.storage_indices, i) # -1
          /\ GetItem(jarr.storage_indices, j) # -1) =>
             GetItem(jarr.storage_indices, i) # GetItem(jarr.storage_indices, j)

\* C6: the item read at an index j changes only by a successful assignment
\* to j while j reads UNSPECIFIED (to the assigned item) or by finalize
\* while j reads UNSPECIFIED (to None); hence an item that reads None or a
\* list reads the same after every call.
C6_RowStateMachine ==
    [][\A j \in Valid :
         Row(jarr', j) # Row(jarr, j) =>
           /\ Row(jarr, j) = UNSPECIFIED
           /\ \/ /\ SetCalled /\ lastOp'.err = "none"
                 /\ LastIndex(jarr) = j
                 /\ Row(jarr', j) = lastOp'.row
              \/ /\ lastOp'.op = "finalize"
                 /\ Row(jarr', j) = None]_vars

\* C7: an index reads UNSPECIFIED if and only if no call has assigned it
\* (so every index of a new instance does), an index assigned the empty
\* list reads the empty list and an index assigned None reads None.
C7_UnsetNullEmptyDistinct ==
    /\ lastOp.op = "init" => \A i \in Valid : Row(jarr, i) = UNSPECIFIED
    /\ \A i \in Valid :
         /\ Row(jarr, i) = UNSPECIFIED <=> inp[i + 1] = UNSPECIFIED
         /\ inp[i + 1] = List(<<>>) => Row(jarr, i) = List(<<>>)
         /\ inp[i + 1] = None => Row(jarr, i) = None

\* C8: after finalize no item is UNSPECIFIED: an item that read UNSPECIFIED
\* before reads None, every other item reads as before, and storage_count
\* is the size.
C8_FinalizeResolvesAll ==
    [][lastOp'.op = "finalize" =>
          /\ \A i \in Valid : Row(jarr', i) = AsNull(Row(jarr, i))
          /\ jarr'.storage_count = jarr'.size]_vars

\* C9: on an instance built by successful assignments, tolist() after
\* finalize() equals tolist() of normalize(True) taken before finalize().
C9_FinalizeAgreesWithNormalize ==
    [][(lastOp'.op = "finalize" /\ ~overflowed) =>
          /\ normalize(jarr, TRUE).err = "none"
          /\ tolist(jarr') = tolist(normalize(jarr, TRUE).result)]_vars

\* finalize() has made a None of the first item, which is stored after a
\* non-empty list.
C9_Witness ==
    /\ lastOp.op = "finalize" /\ ~overflowed
    /\ jarr.size >= 2
    /\ Row(jarr, 0) = None
    /\ GetItem(jarr.storage_indices, 0) > GetItem(jarr.storage_indices, 1)
    /\ Row(jarr, 1).tag = "list" /\ Len(Row(jarr, 1).seq) > 0

RECURSIVE TotalLength(_, _)
\* The total length of the first k items of a list of items
TotalLength(list, k) ==
    IF k = 0 THEN 0 ELSE TotalLength(list, k - 1) + Len(list[k].seq)

\* C10: on an index that no call has assigned, the assignment of None
\* always succeeds and uses no buffer item; the assignment of a list
\* succeeds if and only if current offset + length <= buffer size, fails on
\* the buffer size otherwise and is never truncated; the total length of
\* the assigned lists never exceeds the buffer size.
C10_CapacityRule ==
    /\ [](TotalLength(inp, Len(inp)) <= jarr.max_buffer_size)
    /\ [][(SetCalled /\ inp[LastIndex(jarr) + 1] = UNSPECIFIED) =>
            /\ lastOp'.row = None =>
                 /\ lastOp'.err = "none"
                 /\ current_offset(jarr') = current_offset(jarr)
            /\ lastOp'.row.tag = "list" =>
                 /\ lastOp'.err = "none" <=>
                      current_offset(jarr) + Len(lastOp'.row.seq)
                          <= jarr.max_buffer_size
                 /\ lastOp'.err \in {"none", "CapacityExceeded"}
                 /\ lastOp'.err = "none" =>
                      Row(jarr', LastIndex(jarr)) = lastOp'.row]_vars

\* The instance that the object named target refers to
Instance(m, target) == Load(m.heap, m[target])

\* C11: normalize leaves all the lists and the storage_count of its source
\* as they were, and the copy shares no list with the source: an
\* assignment or a finalize on one of the two instances leaves the other
\* instance (hence its tolist()) as it was.
C11_NormalizeReadsOnly ==
    [][/\ mem'.op.name = "normalize" =>
            Instance(mem', "jarr") = Instance(mem, "jarr")
       /\ (mem'.op.name \in {"set", "finalize"} /\ mem.narr # NoObject) =>
            /\ mem'.op.target = "jarr" =>
                 Instance(mem', "narr") = Instance(mem, "narr")
            /\ mem'.op.target = "narr" =>
                 Instance(mem', "jarr") = Instance(mem, "jarr")]_vars

\* None has been assigned to an index of the copy of an instance that holds
\* a non-empty list, and the index is still unspecified in the source.
C11_Witness ==
    /\ mem.op.name = "set" /\ mem.op.target = "narr" /\ mem.op.err = "none"
    /\ tolist(Instance(mem, "narr")) # tolist(Instance(mem, "jarr"))
    /\ \E i \in 0..(mem.jarr.size - 1) :
         /\ Row(Instance(mem, "jarr"), i).tag = "list"
         /\ Len(Row(Instance(mem, "jarr"), i).seq) > 0
    /\ \E i \in 0..(mem.jarr.size - 1) :
         /\ Row(Instance(mem, "narr"), i) = None
         /\ Row(Instance(mem, "jarr"), i) = UNSPECIFIED

\* C12: an assignment or a read with an index that is, after the size is
\* added to a negative index, outside [0, size) fails with IndexOutOfBounds
\* and with no other error, and leaves the instance as it was.
C12_IndexOutOfBounds ==
    [][(lastOp'.op \in {"set", "get"} /\ LastIndex(jarr) \notin Valid) =>
          /\ lastOp'.err = "IndexOutOfBounds"
          /\ jarr' = jarr]_vars

\* The offset that an entry of compressed_indices stands for: the entry, or
\* -(entry + 1) when the entry marks a null array
Decode(entry) == IF entry < 0 THEN -(entry + 1) ELSE entry

\* The range of the buffer that self[index] reads is inside the buffer
RangeInBuffer(self, index) ==
    LET storage_index == GetItem(self.storage_indices, index)
        ptr == GetItem(self.compressed_indices, storage_index)
        next_ptr == Decode(GetItem(self.compressed_indices, storage_index + 1))
    IN  (storage_index # -1 /\ ptr >= 0) =>
           (0 <= ptr /\ ptr <= next_ptr /\ next_ptr <= self.max_buffer_size)

\* C13: a read at an index in [0, size) never fails, in every state (the
\* states after rejected assignments included): it returns an item, the
\* range that it decodes satisfies 0 <= ptr <= next_ptr <= buffer size, and
\* it leaves the instance as it was.
C13_GetReadOnlyTotal ==
    [][(lastOp'.op = "get" /\ LastIndex(jarr) \in Valid) =>
          /\ lastOp'.err = "none"
          /\ lastOp'.result.tag \in {"Unspecified", "None", "list"}
          /\ RangeInBuffer(jarr, LastIndex(jarr))
          /\ jarr' = jarr]_vars

\* C14: a finalize right after a finalize does nothing: it raises no
\* error and leaves storage_count, storage_indices, compressed_indices and
\* values (hence tolist()) as the first call left them.
C14_FinalizeIdempotent ==
    lastOp.op = "finalize" =>
        /\ finalize(jarr) = Outcome(jarr, "none", None)
        /\ tolist(finalize(jarr).jarr) = tolist(jarr)

\* finalize() has run on an instance that holds a non-empty list and an
\* item that it has made None.
C14_Witness ==
    /\ lastOp.op = "finalize" /\ lastOp.err = "none"
    /\ jarr.size >= 2 /\ jarr.storage_count = jarr.size
    /\ \E i, j \in Valid :
         /\ Row(jarr, i).tag = "list" /\ Len(Row(jarr, i).seq) > 0
         /\ Row(jarr, j) = None /\ inp[j + 1] = None
         /\ GetItem(jarr.storage_indices, i) < GetItem(jarr.storage_indices, j)

\* C15: the normalize of a normalized copy, with the same flag, has the
\* same tolist() as the copy.
C15_NormalizeIdempotent ==
    (lastOp.op = "normalize" /\ lastOp.err = "none") =>
        LET again == normalize(lastOp.result, lastOp.index = 1)
        IN  /\ again.err = "none"
            /\ tolist(again.result) = tolist(lastOp.result)

\* normalize(False) has copied an instance with a non-empty list and an
\* unspecified item.
C15_Witness ==
    /\ lastOp.op = "normalize" /\ lastOp.err = "none" /\ lastOp.index = 0
    /\ \E i, j \in Valid :
         /\ Row(lastOp.result, i).tag = "list"
         /\ Len(Row(lastOp.result, i).seq) > 0
         /\ Row(lastOp.result, j) = UNSPECIFIED

\* The indices that a successful call has assigned the storage index k
Committed(k) ==
    {j \in Valid : inp[j + 1] # UNSPECIFIED /\ GetItem(jarr.storage_indices, j) = k}

\* The entry k of compressed_indices of self
Entry(self, k) == GetItem(self.compressed_indices, k)

\* C19: the offsets that the entries 0..storage_count of compressed_indices
\* stand for start at 0 and never decrease; for every storage index k below
\* storage_count the entry is negative exactly when the array stored there
\* is null, a null array ends at the offset where it starts, and a list is
\* values[entry k : offset of entry k + 1]; no call changes the offset that
\* an entry up to storage_count stands for (a marker written over the
\* entry of the next array keeps the length of the array before it).
C19_EncodingInvariant ==
    /\ [](/\ Decode(Entry(jarr, 0)) = 0
          /\ \A k \in 0..(jarr.storage_count - 1) :
               /\ Decode(Entry(jarr, k)) <= Decode(Entry(jarr, k + 1))
               /\ Committed(k) # {}
               /\ \A j \in Committed(k) :
                    /\ Entry(jarr, k) < 0 <=> inp[j + 1] = None
                    /\ Entry(jarr, k) < 0 =>
                         Decode(Entry(jarr, k + 1)) = Decode(Entry(jarr, k))
                    /\ Entry(jarr, k) >= 0 =>
                         inp[j + 1] = List(GetSlice(jarr.values, Entry(jarr, k),
                                                    Decode(Entry(jarr, k + 1)))))
    /\ [][\A k \in 0..jarr.storage_count :
            Decode(Entry(jarr', k)) = Decode(Entry(jarr, k))]_vars

\* A non-empty list is stored right before a null array.
C19_Witness ==
    \E k \in 0..(jarr.storage_count - 2) :
        /\ Entry(jarr, k) >= 0
        /\ Entry(jarr, k + 1) < 0
        /\ Decode(Entry(jarr, k + 1)) > Entry(jarr, k)

\* C20: the entry storage_count of compressed_indices is never negative
\* and is the total length of the lists assigned so far; every item of the
\* values buffer at or after it still has its initial value 0.
C20_OpenEntry ==
    /\ current_offset(jarr) >= 0
    /\ current_offset(jarr) = TotalLength(inp, Len(inp))
    /\ \A p \in current_offset(jarr)..(Len(jarr.values) - 1) :
         GetItem(jarr.values, p) = 0

\* A null array is stored after a non-empty list and the buffer has room
\* left.
C20_Witness ==
    /\ jarr.storage_count >= 2
    /\ Entry(jarr, jarr.storage_count - 1) < 0
    /\ current_offset(jarr) > 0
    /\ current_offset(jarr) < Len(jarr.values)

\* The two writers have completed their calls, on two different indices
BothDone ==
    /\ threads[1].pc = "done" /\ threads[2].pc = "done"
    /\ threads[1].index # threads[2].index

\* The two indices refer to the same entry of compressed_indices
SameSlot ==
    GetItem(shared.storage_indices, threads[1].index)
        = GetItem(shared.storage_indices, threads[2].index)

\* The instance is not what the two calls make in sequence: two indices on
\* one entry, fewer entries counted than items assigned, or an index that
\* reads back as another item than the assigned one
Broken ==
    \/ SameSlot
    \/ shared.storage_count < 2
    \/ \E t \in Writers : Row(shared, threads[t].index) # threads[t].row

\* C16: two threads that assign to two different unassigned indices of one
\* instance with no lock are not safe: when both calls have completed, the
\* instance is broken (the two indices on one entry, storage_count below the
\* number of assigned items, or an item read back that was not the one
\* assigned) exactly when both threads read the same storage_count at the
\* entry of _unsafe_setnull or _unsafe_setitem, and such a state is reached.
C16_ConcurrentWritersBreak ==
    BothDone =>
        /\ threads[1].storage_index = threads[2].storage_index => SameSlot
        /\ Broken <=> threads[1].storage_index = threads[2].storage_index

C16_Witness ==
    /\ BothDone
    /\ SameSlot
    /\ shared.storage_count < 2
    /\ Row(shared, threads[1].index) # threads[1].row

\* Zeros(size) is what the buffer holds where no item has been stored
Zeros(size) == [k \in 1..size |-> 0]

\* The thread l has found its index unassigned and has not yet returned
Assigning(l) == Running(l) /\ l.pc \notin {"L149", "L199"}

\* What jarr[l.index] returns while the thread l is assigning
Torn(l) ==
    CASE l.pc \in {"L101", "L102", "L110", "L111"} -> UNSPECIFIED
      [] l.pc \in {"L103", "L104", "L105"} -> List(<<>>)
      [] l.pc \in {"L106", "L106w"} -> None
      [] l.pc \in {"L112", "L113", "L114"} -> List(<<>>)
      [] l.pc = "L115" -> List(Zeros(Len(l.row.seq)))
      [] l.pc \in {"L116", "L116w"} -> l.row

\* C17: with one writer, a read of the index that the writer is assigning,
\* made between two writes of the call, can return an item that is neither
\* UNSPECIFIED nor the assigned item: the empty list after the write of
\* storage_indices and before the write of the marker or of the next
\* offset, and a list of the right length with the old contents of the
\* buffer after the write of the next offset and before the write of values.
C17_TornRead ==
    Assigning(threads[Writer]) =>
        /\ Row(shared, threads[Writer].index) = Torn(threads[Writer])
        /\ seen.index = threads[Writer].index /\ seen.result # threads[Writer].row
             => seen.result \in {UNSPECIFIED, List(<<>>),
                                 List(Zeros(Len(threads[Writer].row.seq)))}

C17_Witness ==
    /\ Assigning(threads[Writer])
    /\ seen.index = threads[Writer].index
    /\ seen.result = Row(shared, seen.index)
    /\ \/ threads[Writer].row = None /\ seen.result = List(<<>>)
       \/ threads[Writer].row = List(<<1, 2>>) /\ seen.result = List(<<0, 0>>)

\* The call has reached the return of line 220
Returned == dist.pc = "returned"

\* C18: distribute_column_indices(n_rows, n_cols, nnz) with the 'python'
\* backend, for every n_rows > 0, n_cols > 0 and 0 <= nnz <= n_rows * n_cols,
\* terminates: both while loops exit, no assert fails and no exception is
\* raised, and the call returns counts with len(counts) = n_rows, every count
\* in 0..n_cols, and sum(counts) = nnz.
C18_DistributeTerminates ==
    /\ <>Returned
    /\ [](dist.pc # "failed")
    /\ [](Returned =>
            /\ Len(dist.counts) = dist.n_rows
            /\ \A j \in 1..Len(dist.counts) :
                 0 <= dist.counts[j] /\ dist.counts[j] <= dist.n_cols
            /\ Sum(dist.counts, 0) = dist.nnz)

C18_Witness ==
    /\ Returned
    /\ dist.n >= 1 /\ dist.n < dist.n_rows - 1
    /\ dist.m >= 1 /\ dist.m < dist.n_cols - 1
    /\ dist.N # 0
    /\ Len(dist.counts) = dist.n_rows
    /\ Sum(dist.counts, 0) = dist.nnz

\* The indices that no call has assigned
Unset == {i \in Valid : inp[i + 1] = UNSPECIFIED}

\* C21: storage_count never decreases. A successful assignment of None or
\* of a list adds one to it and gives the index the storage index that
\* storage_count was before the call; finalize adds the number of the
\* indices that no call has assigned; a rejected assignment, a read and
\* normalize leave it as it was. In every state 0 <= storage_count <= size
\* and storage_count is the number of the assigned indices.
C21_StorageCountMonotone ==
    /\ [](/\ 0 <= jarr.storage_count /\ jarr.storage_count <= jarr.size
          /\ jarr.storage_count = Cardinality(Valid \ Unset))
    /\ [][/\ jarr'.storage_count >= jarr.storage_count
          /\ (/\ lastOp'.op = "set" /\ lastOp'.err = "none"
              /\ lastOp'.row # UNSPECIFIED) =>
                /\ jarr'.storage_count = jarr.storage_count + 1
                /\ GetItem(jarr'.storage_indices, LastIndex(jarr))
                       = jarr.storage_count
          /\ (lastOp'.op = "set" /\ lastOp'.err # "none") =>
                jarr'.storage_count = jarr.storage_count
          /\ lastOp'.op \in {"get", "normalize"} =>
                jarr'.storage_count = jarr.storage_count
          /\ (lastOp'.op = "finalize" /\ lastOp'.err = "none") =>
                jarr'.storage_count = jarr.storage_count + Cardinality(Unset)]_vars

\* C22: the instance that normalize returns stores its arrays in the order
\* of the indices and wastes no buffer: its storage indices increase
\* strictly with the index (and are the indices themselves when
\* unspecified_is_null is true), the size of its buffer is the number of
\* buffer items that the source uses, the copy never fails on the size of
\* the buffer, and the copy uses its whole buffer.
C22_NormalizedLayout ==
    lastOp.op = "normalize" =>
        /\ lastOp.err = "none"
        /\ \A i, j \in Valid :
             (/\ i < j
              /\ GetItem(lastOp.result.storage_indices, i) # -1
              /\ GetItem(lastOp.result.storage_indices, j) # -1) =>
                 GetItem(lastOp.result.storage_indices, i)
                     < GetItem(lastOp.result.storage_indices, j)
        /\ lastOp.index = 1 =>
             \A i \in Valid : GetItem(lastOp.result.storage_indices, i) = i
        /\ lastOp.result.max_buffer_size = current_offset(jarr)
        /\ current_offset(lastOp.result) = lastOp.result.max_buffer_size

\* C23: finalize stores its None items after all the arrays stored before
\* and in the order of the indices: the m-th of the unassigned indices, in
\* ascending order, gets the storage index storage_count + m - 1 of before
\* the call; the storage index of every assigned index, the buffer of
\* values and the number of buffer items in use are as before the call.
C23_FinalizeAppendsInOrder ==
    [][lastOp'.op = "finalize" =>
          /\ \A u \in Unset :
               GetItem(jarr'.storage_indices, u)
                   = jarr.storage_count + Cardinality({v \in Unset : v < u})
          /\ \A i \in Valid \ Unset :
               GetItem(jarr'.storage_indices, i)
                   = GetItem(jarr.storage_indices, i)
          /\ jarr'.values = jarr.values
          /\ current_offset(jarr') = current_offset(jarr)]_vars

\* C24: in every state, for every k in 1..size, jarr[-k] = varlenarray has
\* the same outcome (the instance it leaves, or the error) as
\* jarr[size - k] = varlenarray, and jarr[-k] returns the item that
\* jarr[size - k] returns.
C24_NegativeIndex ==
    \A k \in 1..jarr.size :
        /\ \A varlenarray \in items :
             __setitem__(jarr, -k, varlenarray)
                 = __setitem__(jarr, jarr.size - k, varlenarray)
        /\ __getitem__(jarr, -k) = __getitem__(jarr, jarr.size - k)

\* A list assigned with a negative index is read back with both indices.
C24_Witness ==
    /\ lastOp.op = "set" /\ lastOp.err = "none"
    /\ lastOp.index < 0 /\ lastOp.index >= -(jarr.size)
    /\ lastOp.row = List(<<1, 2>>)
    /\ __getitem__(jarr, lastOp.index).result = List(<<1, 2>>)
    /\ Row(jarr, jarr.size + lastOp.index) = List(<<1, 2>>)
    /\ \E i \in Valid : i # jarr.size + lastOp.index /\ Row(jarr, i) = UNSPECIFIED

\* The indices of the list that fromlist is given
Given == 0..(Len(made.lst) - 1)

SharedValid == 0..(shared.size - 1)

\* C26: with one writer, a read never returns a torn item for an index whose
\* assignment has completed: in every state, those between two lines of
\* an assignment to another index or of finalize included, such an index
\* reads the item that was assigned to it, and every read of the reader
\* returns it; this holds also for the index stored just before the one
\* being written, when the entry that closes it becomes the marker of a
\* None item.
C26_CommittedReadsExact ==
    /\ [](\A j \in SharedValid :
            kept[j + 1] # UNSPECIFIED => Row(shared, j) = kept[j + 1])
    /\ [][(seen' # seen /\ kept[seen'.index + 1] # UNSPECIFIED) =>
             seen'.result = kept[seen'.index + 1]]_vars

\* The writer has written the marker of a None item and not yet counted
\* it; the reader has read the list stored just before it.
C26_Witness ==
    /\ threads[Writer].pc = "L106"
    /\ \E j \in SharedValid :
         /\ j # threads[Writer].index
         /\ kept[j + 1] = List(<<1, 2>>)
         /\ GetItem(shared.storage_indices, j) = threads[Writer].storage_index - 1
         /\ GetItem(shared.compressed_indices, threads[Writer].storage_index) < 0
         /\ seen = [index |-> j, result |-> List(<<1, 2>>)]
         /\ Row(shared, j) = List(<<1, 2>>)

====
